---- MODULE Spec2Model ----
(***************************************************************************)
(* Orders of the pastry e-commerce server: the currency normaliser         *)
(* (utils/currency.ts), the createOrder, updateOrder and deleteOrder       *)
(* handlers (controllers/order.controller.ts), the staff handlers that     *)
(* write to an order (controllers/business.controller.ts), the Order       *)
(* schema with its pre-save hooks and unique orderNumber index             *)
(* (models/order.model.ts), the controller error mapping                   *)
(* (utils/error-handler.ts), and of its users the pre-save hook on the     *)
(* default address (models/user.model.ts) and registerUser and             *)
(* confirmEmail (services/auth.service.ts).                                *)
(*                                                                         *)
(* Money is an integer number of mills (1/1000 of a dollar), so that an    *)
(* amount with three decimals is exact and a 2-decimal rounding is         *)
(* visible.  A tax rate is an integer number of thousandths.  JavaScript   *)
(* doubles are modelled by these exact decimals; the one place where the   *)
(* binary representation decides an outcome (a difference of exactly one   *)
(* cent compared with 0.01) is a nondeterministic input, fuzz.             *)
(* An optional request field is <<>> when absent and <<v>> when present.   *)
(***************************************************************************)
EXTENDS Integers, Sequences, FiniteSets, TLC

VARIABLES
  orders,     \* the Order collection: a set of documents
  userOrders, \* the User collection: customer id -> the orders array
  clock,      \* the wall clock's year and month
  nextId,     \* the next fresh ObjectId
  req,        \* request slot -> the handler's position and locals
  allocLog,   \* history: the order numbers inserted so far, in order
  calc,       \* a call of the currency normaliser: its arguments and results
  users,      \* the User collection: a set of documents
  call        \* a call of AuthService or a save of a user: position and locals

vars == <<orders, userOrders, clock, nextId, req, allocLog, calc, users, call>>

-----------------------------------------------------------------------------
(* Bounds of the model *)

MaxRequests == 2  \* requests in progress at once
MaxOrders == 3    \* no request to create starts once this many ids are used
MaxTicks == 1     \* month ends
MaxAddresses == 5 \* addresses of a user document
MaxNotes == 2     \* no note is added to internal notes this long

Requests == 1..MaxRequests

-----------------------------------------------------------------------------
(* Numbers *)

Absent == <<>>
Some(v) == <<v>>
IsDefined(o) == Len(o) = 1
Val(o) == o[1]

Abs(x) == IF x < 0 THEN -x ELSE x

\* n/d rounded to the nearest integer, a tie away from zero: what
\* Number.prototype.toFixed does with the digits it keeps.
RoundDiv(n, d) ==
  IF n >= 0 THEN (2 * n + d) \div (2 * d)
  ELSE -((2 * (-n) + d) \div (2 * d))

\* Number(x.toFixed(2)) of an amount in mills
toFixed2(m) == 10 * RoundDiv(m, 10)

isInteger(v) == v % 1000 = 0

RECURSIVE SumTotalPrice(_)
SumTotalPrice(items) ==
  IF items = <<>> THEN 0
  ELSE items[1].totalPrice + SumTotalPrice(Tail(items))

-----------------------------------------------------------------------------
(* utils/currency.ts *)

centsToDollars(cents) == 10 * RoundDiv(cents, 1000)

\* a slip: a reference of 0 is taken for a reference
isLikelyInCents_zeroReference(value, ref) ==
  \/ IsDefined(ref) /\ value > Val(ref) * 50
  \/ value >= 1000000 /\ isInteger(value)
  \/ isInteger(value) /\ value > 100000

\* ref is the optional referenceValue; a reference of 0 is falsy
isLikelyInCents(value, ref) ==
  \/ IsDefined(ref) /\ Val(ref) /= 0 /\ value > Val(ref) * 50
  \/ value >= 1000000 /\ isInteger(value)
  \/ isInteger(value) /\ value > 100000

smartCurrencyConvert(value, ref) ==
  IF isLikelyInCents(value, ref) THEN centsToDollars(value) ELSE value

\* no call of the normaliser is under way
NoCall == [pc |-> "off", value |-> 0, ref |-> Absent, once |-> Absent, twice |-> Absent]

convertOpt(o, ref) ==
  IF IsDefined(o) THEN Some(smartCurrencyConvert(Val(o), ref)) ELSE o

convertItem(item, ref) ==
  [item EXCEPT !.unitPrice = smartCurrencyConvert(item.unitPrice, ref),
               !.totalPrice = smartCurrencyConvert(item.totalPrice, ref)]

convertOrderMonetaryValues(body) ==
  LET subtotalRef == body.subtotal IN
  [body EXCEPT
     !.subtotal = convertOpt(body.subtotal, Absent),
     !.tax = convertOpt(body.tax, subtotalRef),
     !.discount = convertOpt(body.discount, subtotalRef),
     !.total = convertOpt(body.total, subtotalRef),
     !.shippingCost = convertOpt(body.shippingCost, subtotalRef),
     !.items = [i \in 1..Len(body.items) |-> convertItem(body.items[i], subtotalRef)]]

-----------------------------------------------------------------------------
(* utils/ecuador-validation.ts: the delivery zone table *)

DeliveryZones == {"samanes_suburbio", "norte_sur_esteros", "sambo", "via_costa", "aurora"}

ZonePriceTable ==
  [samanes_suburbio |-> 3000, norte_sur_esteros |-> 3500, sambo |-> 4000,
   via_costa |-> 5000, aurora |-> 6000]

isValidDeliveryZone(zone) == zone \in DeliveryZones

getDeliveryZonePrice(zone) == ZonePriceTable[zone]

-----------------------------------------------------------------------------
(* utils/error-handler.ts *)

\* An error is its name and the keywords its message contains.
Err(name, words) == [name |-> name, words |-> words, statusCode |-> 0]

handleControllerError(error) ==
  IF error.name = "AppError" THEN error.statusCode
  ELSE IF error.words \cap {"Invalid", "verify", "Unauthorized"} /= {} THEN 401
  ELSE IF error.words \cap {"required", "invalid", "format"} /= {} THEN 400
  ELSE IF error.words \cap {"already exists", "duplicate"} /= {} THEN 409
  ELSE IF error.words \cap {"not found", "does not exist"} /= {} THEN 404
  ELSE IF error.words \cap {"Failed to send email", "email"} /= {} THEN 503
  ELSE IF error.name = "ValidationError" THEN 400
  ELSE IF error.name = "CastError" THEN 400
  ELSE 500

\* whether the answer carries error.message (as message, or as error)
\* and not only a text of the handler's own
sendsErrorMessage(error) ==
  IF error.name = "AppError" THEN TRUE
  ELSE IF error.words \cap {"Invalid", "verify", "Unauthorized"} /= {} THEN TRUE
  ELSE IF error.words \cap {"required", "invalid", "format"} /= {} THEN TRUE
  ELSE IF error.words \cap {"already exists", "duplicate"} /= {} THEN TRUE
  ELSE IF error.words \cap {"not found", "does not exist"} /= {} THEN TRUE
  ELSE IF error.words \cap {"Failed to send email", "email"} /= {} THEN TRUE
  ELSE IF error.name = "ValidationError" THEN TRUE
  ELSE FALSE

\* what the driver throws when the store cannot be reached
StoreError == Err("MongoNetworkError", {})

\* E11000 duplicate key error collection: ... index: orderNumber_1 dup key
DuplicateKeyError == Err("MongoServerError", {"duplicate"})

-----------------------------------------------------------------------------
(* controllers/order.controller.ts: createOrder, the synchronous part *)

Customers == {"c1"}

\* an answer: its status, what it carries as its message (a text of the
\* handler that sends it, the thrown error's message, or the generic text of
\* handleControllerError) and, for the record, what caused it
NoResp == [status |-> 0, cause |-> "none", message |-> "none"]
Resp(status, cause) == [status |-> status, cause |-> cause, message |-> "own"]

\* the answer handleControllerError sends for a thrown error
ErrorResp(error, cause) ==
  [status |-> handleControllerError(error), cause |-> cause,
   message |-> IF sendsErrorMessage(error) THEN "error" ELSE "generic"]

\* String(paymentReference).trim() on a sequence of characters
RECURSIVE trimStart(_)
trimStart(s) == IF s /= <<>> /\ s[1] = " " THEN trimStart(Tail(s)) ELSE s

RECURSIVE trimEnd(_)
trimEnd(s) ==
  IF s /= <<>> /\ s[Len(s)] = " " THEN trimEnd(SubSeq(s, 1, Len(s) - 1)) ELSE s

trim(s) == trimEnd(trimStart(s))

\* an absent value and the empty string are falsy
TruthyString(o) == IsDefined(o) /\ Val(o) /= ""
TruthyChars(o) == IsDefined(o) /\ Val(o) /= <<>>

\* a slip: an unknown zone is answered as a missing resource
requestCheck_zoneNotFound(body) ==
  IF body.customer = "" \/ body.items = <<>> THEN Resp(400, "required")
  ELSE IF body.customer = "malformed" THEN Resp(400, "customer_id")
  ELSE IF body.billing = "missing" THEN Resp(400, "billing")
  ELSE IF body.billing = "cedula" THEN Resp(400, "cedula")
  ELSE IF body.billing = "phone" THEN Resp(400, "billing_phone")
  ELSE IF body.delivery = "missing" THEN Resp(400, "delivery")
  ELSE IF body.deliveryZone = "" \/ ~isValidDeliveryZone(body.deliveryZone)
    THEN Resp(404, "zone")
  ELSE IF body.delivery = "phone" THEN Resp(400, "delivery_phone")
  ELSE NoResp

\* lines 47-109: the checks made before the first store access
requestCheck(body) ==
  IF body.customer = "" \/ body.items = <<>> THEN Resp(400, "required")
  ELSE IF body.customer = "malformed" THEN Resp(400, "customer_id")
  ELSE IF body.billing = "missing" THEN Resp(400, "billing")
  ELSE IF body.billing = "cedula" THEN Resp(400, "cedula")
  ELSE IF body.billing = "phone" THEN Resp(400, "billing_phone")
  ELSE IF body.delivery = "missing" THEN Resp(400, "delivery")
  ELSE IF body.deliveryZone = "" \/ ~isValidDeliveryZone(body.deliveryZone)
    THEN Resp(400, "zone")
  ELSE IF body.delivery = "phone" THEN Resp(400, "delivery_phone")
  ELSE NoResp

\* lines 120-140: the coordinate checks made after the customer lookup
coordinateCheck(body) ==
  IF body.delivery = "half_coords" THEN Resp(400, "coords")
  ELSE IF body.delivery = "bad_coords" THEN Resp(400, "coords")
  ELSE NoResp

\* a slip: the shipping cost the client sent is taken when there is one
calculatedShippingCost_fromClient(body) ==
  LET sent == convertOrderMonetaryValues(body).shippingCost IN
  IF IsDefined(sent) THEN Val(sent) ELSE getDeliveryZonePrice(body.deliveryZone)

calculatedShippingCost(body) == getDeliveryZonePrice(body.deliveryZone)

\* a slip: the sum is not rounded
calculatedSubtotal_unrounded(body) ==
  SumTotalPrice(convertOrderMonetaryValues(body).items)

calculatedSubtotal(body) ==
  toFixed2(SumTotalPrice(convertOrderMonetaryValues(body).items))

rateOrZero(body) ==
  IF IsDefined(body.taxRate) THEN Val(body.taxRate) ELSE 0

\* a slip: the tax is cut to whole cents, not rounded
calculatedTax_truncated(body) ==
  10 * ((calculatedSubtotal(body) * rateOrZero(body)) \div 10000)

\* subtotal in mills times a rate in thousandths, to whole cents, in mills
calculatedTax(body) ==
  10 * RoundDiv(calculatedSubtotal(body) * rateOrZero(body), 10000)

calculatedDiscount(body) ==
  LET d == convertOrderMonetaryValues(body).discount IN
  IF IsDefined(d) THEN Val(d) ELSE 0

calculatedTotal(body) ==
  calculatedSubtotal(body) + calculatedTax(body)
    + calculatedShippingCost(body) - calculatedDiscount(body)

\* a slip: the total is stored as computed, not rounded
orderTotal_unrounded(body) == calculatedTotal(body)

\* line 186: Number(calculatedTotal.toFixed(2))
orderTotal(body) == toFixed2(calculatedTotal(body))

\* a reference of blanks counts as a reference
finalPaymentStatus_untrimmed(body) ==
  IF TruthyString(body.paymentStatus) THEN Val(body.paymentStatus)
  ELSE IF TruthyChars(body.paymentReference) THEN "paid"
  ELSE "pending"

\* lines 170-174; a reference is a sequence of characters
finalPaymentStatus(body) ==
  IF TruthyString(body.paymentStatus) THEN Val(body.paymentStatus)
  ELSE IF TruthyChars(body.paymentReference) /\ trim(Val(body.paymentReference)) /= <<>>
    THEN "paid"
  ELSE "pending"

\* lines 176-200: new models.order({...}); the ObjectId is made here
newOrder(body, id) ==
  [id |-> id,
   orderNumber |-> Absent,
   customer |-> body.customer,
   items |-> convertOrderMonetaryValues(body).items,
   subtotal |-> calculatedSubtotal(body),
   tax |-> calculatedTax(body),
   taxRate |-> rateOrZero(body),
   discount |-> calculatedDiscount(body),
   total |-> orderTotal(body),
   paymentStatus |-> finalPaymentStatus(body),
   status |-> "pending",
   deliveryZone |-> body.deliveryZone,
   shippingCost |-> calculatedShippingCost(body),
   internalNotes |-> <<>>]

-----------------------------------------------------------------------------
(* models/order.model.ts: the schema's validators *)

OrderStatuses ==
  {"pending", "confirmed", "processing", "shipped", "delivered", "cancelled", "refunded"}

PaymentStatuses == {"pending", "paid", "failed", "refunded", "partially_refunded"}

itemValid(item) ==
  item.quantity >= 1 /\ item.unitPrice >= 0 /\ item.totalPrice >= 0

schemaValid(doc) ==
  /\ Len(doc.items) > 0
  /\ \A i \in 1..Len(doc.items) : itemValid(doc.items[i])
  /\ doc.subtotal >= 0
  /\ doc.tax >= 0
  /\ doc.taxRate >= 0 /\ doc.taxRate <= 1000
  /\ doc.discount >= 0
  /\ doc.total >= 0
  /\ doc.shippingCost >= 0
  /\ doc.deliveryZone \in DeliveryZones
  /\ doc.customer /= ""
  /\ doc.status \in OrderStatuses
  /\ doc.paymentStatus \in PaymentStatuses

\* Order validation failed: <path>: <message>; none of the messages of the
\* validators above holds a keyword handleControllerError looks for.
SchemaError == Err("ValidationError", {})

-----------------------------------------------------------------------------
(* models/order.model.ts: the order number *)

RECURSIVE String(_)
String(n) == IF n < 10 THEN <<n>> ELSE String(n \div 10) \o <<n % 10>>

RECURSIVE padStart(_, _)
padStart(s, width) == IF Len(s) >= width THEN s ELSE padStart(<<0>> \o s, width)

RECURSIVE parseInt(_)
parseInt(s) == IF s = <<>> THEN 0 ELSE 10 * parseInt(SubSeq(s, 1, Len(s) - 1)) + s[Len(s)]

\* the order of two strings of digits in the store's sort: character by
\* character, a proper prefix first
RECURSIVE stringLess(_, _)
stringLess(a, b) ==
  IF a = <<>> THEN b /= <<>>
  ELSE IF b = <<>> THEN FALSE
  ELSE IF a[1] /= b[1] THEN a[1] < b[1]
  ELSE stringLess(Tail(a), Tail(b))

\* ORDER-${year}-${month}-${seq}
OrderNumber(year, month, seq) == [year |-> year, month |-> month, seq |-> seq]

\* orderNumber: new RegExp(`^ORDER-${year}-${month}-`)
matchesPrefix(number, year, month) == number.year = year /\ number.month = month

\* findOne({orderNumber: regex}).sort({orderNumber: -1}): the documents that
\* are last in the string order (one, under the unique index)
lastOrder(store, year, month) ==
  LET hits == {o \in store : IsDefined(o.orderNumber)
                             /\ matchesPrefix(Val(o.orderNumber), year, month)}
  IN {o \in hits : \A p \in hits :
        ~stringLess(Val(o.orderNumber).seq, Val(p.orderNumber).seq)}

nextNumber(store, year, month) ==
  LET last == lastOrder(store, year, month) IN
  IF last = {} THEN 1
  ELSE parseInt(Val((CHOOSE o \in last : TRUE).orderNumber).seq) + 1

generateOrderNumber(store, now) ==
  LET year == now.year
      month == padStart(String(now.month), 2)
  IN OrderNumber(year, month, padStart(String(nextNumber(store, year, month)), 3))

\* a slip: the index is not unique
uniqueIndexAllows_notUnique(store, doc) == TRUE

\* orderSchema.index({ orderNumber: 1 }, { unique: true })
uniqueIndexAllows(store, doc) ==
  \A o \in store : o.orderNumber /= doc.orderNumber

-----------------------------------------------------------------------------
(* models/order.model.ts: the monetary pre-save checks *)

\* Math.abs(provided - calculated) > 0.01 on two amounts of whole cents: a
\* difference of exactly one cent exceeds the double 0.01 or not, by the
\* operands' binary representation (fuzz)
exceedsTolerance(provided, calculated, fuzz) ==
  LET d == Abs(provided - calculated) IN d > 10 \/ (d = 10 /\ fuzz)

totalMismatch(doc, fuzz) ==
  exceedsTolerance(toFixed2(doc.total),
                   toFixed2(doc.subtotal + doc.tax + doc.shippingCost - doc.discount),
                   fuzz)

itemMismatch(item, fuzz) ==
  exceedsTolerance(toFixed2(item.totalPrice),
                   toFixed2(item.quantity * item.unitPrice), fuzz)

subtotalMismatch(doc, fuzz) ==
  exceedsTolerance(toFixed2(doc.subtotal), toFixed2(SumTotalPrice(doc.items)), fuzz)

\* the result of the two monetary hooks: the cause of the first error, or "none"
preSaveChecks(doc, fuzz) ==
  IF totalMismatch(doc, fuzz) THEN "total_mismatch"
  ELSE IF \E i \in 1..Len(doc.items) : itemMismatch(doc.items[i], fuzz)
    THEN "item_mismatch"
  ELSE IF subtotalMismatch(doc, fuzz) THEN "subtotal_mismatch"
  ELSE "none"

\* new Error(`... does not match ... Provided: ..., Calculated: ...`): a
\* plain Error, whose own words are none of those handleControllerError
\* looks for
MismatchError == Err("Error", {})

\* the error the two monetary hooks pass to next(): the message of a line
\* that does not match quotes the product name of the first such line
mismatchError(doc, fuzz) ==
  IF preSaveChecks(doc, fuzz) = "item_mismatch"
  THEN LET first == CHOOSE i \in 1..Len(doc.items) :
                      /\ itemMismatch(doc.items[i], fuzz)
                      /\ \A j \in 1..(i - 1) : ~itemMismatch(doc.items[j], fuzz)
       IN Err("Error", doc.items[first].productName)
  ELSE MismatchError

-----------------------------------------------------------------------------
(* createOrder as a function of the request: what it answers and stores    *)
(* when the store is up and nothing else runs                               *)

Rejected == [persisted |-> FALSE, items |-> <<>>, subtotal |-> 0, tax |-> 0, total |-> 0]

createOutcome(body, fuzz) ==
  IF \/ requestCheck(body) /= NoResp
     \/ body.customer \notin Customers
     \/ coordinateCheck(body) /= NoResp
  THEN Rejected
  ELSE LET doc == newOrder(body, 0) IN
       IF ~schemaValid(doc) \/ preSaveChecks(doc, fuzz) /= "none" THEN Rejected
       ELSE [persisted |-> TRUE, items |-> doc.items, subtotal |-> doc.subtotal,
             tax |-> doc.tax, total |-> doc.total]

-----------------------------------------------------------------------------
(* The requests *)

\* a line; of its product name the model keeps the words it contains that
\* handleControllerError looks for
Item(quantity, unitPrice, totalPrice) ==
  [productName |-> {}, quantity |-> quantity, unitPrice |-> unitPrice,
   totalPrice |-> totalPrice]

NamedItem(productName, quantity, unitPrice, totalPrice) ==
  [Item(quantity, unitPrice, totalPrice) EXCEPT !.productName = productName]

\* 2 x 12.50 = 25.00, tax rate 0.12, the 3.00 zone
BaseBody ==
  [customer |-> "c1",
   items |-> <<Item(2, 12500, 25000)>>,
   subtotal |-> Some(25000),
   tax |-> Absent,
   taxRate |-> Some(120),
   discount |-> Absent,
   total |-> Some(31000),
   shippingCost |-> Absent,
   deliveryZone |-> "samanes_suburbio",
   billing |-> "ok",
   delivery |-> "ok",
   paymentStatus |-> Absent,
   paymentReference |-> Absent]

\* the requests of the allocation runs: a valid one and one the schema rejects
AllocBodies == {BaseBody, [BaseBody EXCEPT !.taxRate = Some(1500)]}

IdleSlot ==
  [pc |-> "idle", op |-> "none", body |-> Absent, doc |-> Absent,
   target |-> 0, resp |-> NoResp]

\* slots are taken in order
MayStart(r) ==
  /\ req[r].pc = "idle"
  /\ IF r = 1 THEN TRUE ELSE req[r - 1].pc /= "idle"

\* the answer is sent: the slot keeps the operation, the request, the id of
\* the document it made or looked for, and the answer
Finish(r, id, resp) ==
  req' = [req EXCEPT ![r] = [IdleSlot EXCEPT !.pc = "done", !.op = req[r].op,
                                             !.body = req[r].body,
                                             !.target = id, !.resp = resp]]

Fail(r, id, error, cause) == Finish(r, id, ErrorResp(error, cause))

-----------------------------------------------------------------------------
(* createOrder, step by step: each action runs up to the next store access *)

\* lines 16-109: destructure, convert, check the request
CreateOrder(r, bodies) ==
  /\ MayStart(r)
  /\ nextId <= MaxOrders
  /\ \E body \in bodies :
       req' = [req EXCEPT ![r] =
                 IF requestCheck(body) /= NoResp
                 THEN [IdleSlot EXCEPT !.pc = "done", !.op = "create",
                                       !.body = Some(body), !.resp = requestCheck(body)]
                 ELSE [IdleSlot EXCEPT !.pc = "findCustomer", !.op = "create",
                                       !.body = Some(body)]]
  /\ UNCHANGED <<orders, userOrders, clock, nextId, allocLog, calc, users, call>>

\* lines 111-200 and the schema validation of save(): the customer lookup,
\* the coordinate checks, the new document and its validation
FindCustomer(r) ==
  /\ req[r].pc = "findCustomer"
  /\ LET body == Val(req[r].body)
         doc == newOrder(body, nextId)
     IN \E up \in BOOLEAN :
          IF ~up THEN Fail(r, 0, StoreError, "store") /\ UNCHANGED nextId
          ELSE IF body.customer \notin DOMAIN userOrders
            THEN Finish(r, 0, Resp(404, "customer")) /\ UNCHANGED nextId
          ELSE IF coordinateCheck(body) /= NoResp
            THEN Finish(r, 0, coordinateCheck(body)) /\ UNCHANGED nextId
          ELSE IF ~schemaValid(doc)
            THEN Fail(r, doc.id, SchemaError, "schema") /\ nextId' = nextId + 1
          ELSE /\ req' = [req EXCEPT ![r].pc = "preSave", ![r].doc = Some(doc)]
               /\ nextId' = nextId + 1
  /\ UNCHANGED <<orders, userOrders, clock, allocLog, calc, users, call>>

\* the pre-save hooks: read the last order of the month, number the
\* document, check the total, the items and the subtotal
PreSave(r) ==
  /\ req[r].pc = "preSave"
  /\ \E up \in BOOLEAN, fuzz \in BOOLEAN :
       LET doc == Val(req[r].doc)
           numbered == [doc EXCEPT !.orderNumber = Some(generateOrderNumber(orders, clock))]
       IN IF ~up THEN Fail(r, doc.id, StoreError, "store")
          ELSE IF preSaveChecks(numbered, fuzz) /= "none"
            THEN Fail(r, doc.id, mismatchError(numbered, fuzz),
                      preSaveChecks(numbered, fuzz))
          ELSE req' = [req EXCEPT ![r].pc = "insert", ![r].doc = Some(numbered)]
  /\ UNCHANGED <<orders, userOrders, clock, nextId, allocLog, calc, users, call>>

\* the insert of save(), under the unique index on orderNumber
Insert(r) ==
  /\ req[r].pc = "insert"
  /\ LET doc == Val(req[r].doc) IN
     \E up \in BOOLEAN :
       IF ~up THEN Fail(r, doc.id, StoreError, "store") /\ UNCHANGED <<orders, allocLog>>
       ELSE IF ~uniqueIndexAllows(orders, doc)
         THEN Fail(r, doc.id, DuplicateKeyError, "duplicate") /\ UNCHANGED <<orders, allocLog>>
       ELSE /\ orders' = orders \cup {doc}
            /\ allocLog' = Append(allocLog, [id |-> doc.id, number |-> Val(doc.orderNumber)])
            /\ req' = [req EXCEPT ![r].pc = "push"]
  /\ UNCHANGED <<userOrders, clock, nextId, calc, users, call>>

\* lines 204-213: $push the order to the customer, answer 201
PushOrder(r) ==
  /\ req[r].pc = "push"
  /\ LET doc == Val(req[r].doc) IN
     \E up \in BOOLEAN :
       IF ~up THEN Fail(r, doc.id, StoreError, "store") /\ UNCHANGED userOrders
       ELSE /\ userOrders' =
                 IF doc.customer \in DOMAIN userOrders
                 THEN [userOrders EXCEPT ![doc.customer] = Append(@, doc.id)]
                 ELSE userOrders
            /\ Finish(r, doc.id, Resp(201, "created"))
  /\ UNCHANGED <<orders, clock, nextId, allocLog, calc, users, call>>

-----------------------------------------------------------------------------
(* deleteOrder, step by step *)

\* $pull: every occurrence of the id leaves the array
RECURSIVE pull(_, _)
pull(s, id) ==
  IF s = <<>> THEN <<>>
  ELSE IF s[1] = id THEN pull(Tail(s), id)
  ELSE <<s[1]>> \o pull(Tail(s), id)

\* lines 443-452: id 0 stands for a string that is no ObjectId
DeleteOrder(r) ==
  /\ MayStart(r)
  /\ \E id \in 0..(nextId - 1) :
       req' = [req EXCEPT ![r] =
                 IF id = 0
                 THEN [IdleSlot EXCEPT !.pc = "done", !.op = "delete",
                                       !.resp = Resp(400, "order_id")]
                 ELSE [IdleSlot EXCEPT !.pc = "findOrder", !.op = "delete",
                                       !.target = id]]
  /\ UNCHANGED <<orders, userOrders, clock, nextId, allocLog, calc, users, call>>

\* lines 454-460
FindOrder(r) ==
  /\ req[r].pc = "findOrder"
  /\ \E up \in BOOLEAN :
       IF ~up THEN Fail(r, req[r].target, StoreError, "store")
       ELSE IF \E o \in orders : o.id = req[r].target
         THEN req' = [req EXCEPT ![r].pc = "pull",
                        ![r].doc = Some(CHOOSE o \in orders : o.id = req[r].target)]
       ELSE Finish(r, req[r].target, Resp(404, "order"))
  /\ UNCHANGED <<orders, userOrders, clock, nextId, allocLog, calc, users, call>>

\* lines 462-466
PullOrder(r) ==
  /\ req[r].pc = "pull"
  /\ LET doc == Val(req[r].doc) IN
     \E up \in BOOLEAN :
       IF ~up THEN Fail(r, doc.id, StoreError, "store") /\ UNCHANGED userOrders
       ELSE /\ userOrders' =
                 IF doc.customer \in DOMAIN userOrders
                 THEN [userOrders EXCEPT ![doc.customer] = pull(@, doc.id)]
                 ELSE userOrders
            /\ req' = [req EXCEPT ![r].pc = "remove"]
  /\ UNCHANGED <<orders, clock, nextId, allocLog, calc, users, call>>

\* lines 468-474
RemoveOrder(r) ==
  /\ req[r].pc = "remove"
  /\ \E up \in BOOLEAN :
       IF ~up THEN Fail(r, req[r].target, StoreError, "store") /\ UNCHANGED orders
       ELSE /\ orders' = {o \in orders : o.id /= req[r].target}
            /\ Finish(r, req[r].target, Resp(200, "deleted"))
  /\ UNCHANGED <<userOrders, clock, nextId, allocLog, calc, users, call>>

\* the answer is out: the slot is free for the next request
Recycle(r) ==
  /\ req[r].pc = "done"
  /\ req' = [req EXCEPT ![r] = IdleSlot]
  /\ UNCHANGED <<orders, userOrders, clock, nextId, allocLog, calc, users, call>>

-----------------------------------------------------------------------------
(* updateOrder and the staff handlers updateOrderStatus, updatePaymentStatus *)
(* and addInternalNotes: each checks its request, looks the order up with   *)
(* findById and writes with findByIdAndUpdate, which runs no save() hook     *)

\* the update validators of the paths an update sets (runValidators)
updateValid(updateData) ==
  LET has(f) == f \in DOMAIN updateData IN
  /\ has("items") =>
       /\ Len(updateData.items) > 0
       /\ \A i \in DOMAIN updateData.items : itemValid(updateData.items[i])
  /\ has("subtotal") => updateData.subtotal >= 0
  /\ has("tax") => updateData.tax >= 0
  /\ has("taxRate") => updateData.taxRate >= 0 /\ updateData.taxRate <= 1000
  /\ has("discount") => updateData.discount >= 0
  /\ has("total") => updateData.total >= 0
  /\ has("shippingCost") => updateData.shippingCost >= 0
  /\ has("status") => updateData.status \in OrderStatuses
  /\ has("paymentStatus") => updateData.paymentStatus \in PaymentStatuses

\* $set of the fields of updateData
set(doc, updateData) ==
  [f \in DOMAIN doc |-> IF f \in DOMAIN updateData THEN updateData[f] ELSE doc[f]]

\* the bodies of PUT /api/orders/:id
UpdateBodies ==
  { [status |-> "confirmed"],
    [total |-> 99000],
    [taxRate |-> 1500],
    [items |-> <<Item(1, 1000, 1000)>>],
    [orderNumber |-> Some(OrderNumber(2025, <<1, 2>>, <<0, 0, 1>>))] }

StartUpdate(r, op, id, check, updateData, append) ==
  req' = [req EXCEPT ![r] =
            IF id = 0
            THEN [IdleSlot EXCEPT !.pc = "done", !.op = op, !.resp = Resp(400, "order_id")]
            ELSE IF check /= NoResp
            THEN [IdleSlot EXCEPT !.pc = "done", !.op = op, !.resp = check]
            ELSE [IdleSlot EXCEPT !.pc = "findExisting", !.op = op, !.target = id,
                    !.body = Some([updateData |-> updateData, append |-> append])]]

\* order.controller.ts lines 362-375
UpdateOrder(r) ==
  /\ MayStart(r)
  /\ \E id \in 0..(nextId - 1), updateData \in UpdateBodies :
       StartUpdate(r, "updateOrder", id, NoResp, updateData, FALSE)
  /\ UNCHANGED <<orders, userOrders, clock, nextId, allocLog, calc, users, call>>

\* a handler that also sets a total sent with the status
UpdateOrderStatus_wholeBody(r) ==
  /\ MayStart(r)
  /\ \E id \in 0..(nextId - 1), status \in {"", "confirmed", "cancelled", "lost"},
        reason \in BOOLEAN, internalNotes \in {<<>>, <<"note">>} :
       StartUpdate(r, "updateOrderStatus", id,
                   IF status = "" THEN Resp(400, "status_required")
                   ELSE IF status \notin OrderStatuses THEN Resp(400, "status")
                   ELSE IF status \in {"cancelled", "refunded"} /\ ~reason
                     THEN Resp(400, "reason")
                   ELSE NoResp,
                   IF internalNotes = <<>> THEN [status |-> status, total |-> 99000]
                   ELSE [status |-> status, internalNotes |-> internalNotes,
                         total |-> 99000], FALSE)
  /\ UNCHANGED <<orders, userOrders, clock, nextId, allocLog, calc, users, call>>

\* business.controller.ts lines 436-508: the update holds the status and,
\* when sent, the notes
UpdateOrderStatus(r) ==
  /\ MayStart(r)
  /\ \E id \in 0..(nextId - 1), status \in {"", "confirmed", "cancelled", "lost"},
        reason \in BOOLEAN, internalNotes \in {<<>>, <<"note">>} :
       StartUpdate(r, "updateOrderStatus", id,
                   IF status = "" THEN Resp(400, "status_required")
                   ELSE IF status \notin OrderStatuses THEN Resp(400, "status")
                   ELSE IF status \in {"cancelled", "refunded"} /\ ~reason
                     THEN Resp(400, "reason")
                   ELSE NoResp,
                   IF internalNotes = <<>> THEN [status |-> status]
                   ELSE [status |-> status, internalNotes |-> internalNotes], FALSE)
  /\ UNCHANGED <<orders, userOrders, clock, nextId, allocLog, calc, users, call>>

\* business.controller.ts lines 531-560
UpdatePaymentStatus(r) ==
  /\ MayStart(r)
  /\ \E id \in 0..(nextId - 1), paymentStatus \in {"", "paid", "lost"} :
       StartUpdate(r, "updatePaymentStatus", id,
                   IF paymentStatus = "" THEN Resp(400, "payment_status_required")
                   ELSE IF paymentStatus \notin PaymentStatuses
                     THEN Resp(400, "payment_status")
                   ELSE NoResp,
                   [paymentStatus |-> paymentStatus], FALSE)
  /\ UNCHANGED <<orders, userOrders, clock, nextId, allocLog, calc, users, call>>

\* business.controller.ts lines 774-793; a note is a sequence of lines
AddInternalNotes(r) ==
  /\ MayStart(r)
  /\ \A o \in orders : Len(o.internalNotes) < MaxNotes
  /\ \E id \in 0..(nextId - 1), internalNotes \in {<<>>, <<"note">>},
        append \in BOOLEAN :
       StartUpdate(r, "addInternalNotes", id,
                   IF internalNotes = <<>> THEN Resp(400, "notes_required") ELSE NoResp,
                   [internalNotes |-> internalNotes], append)
  /\ UNCHANGED <<orders, userOrders, clock, nextId, allocLog, calc, users, call>>

\* updateOrder answers a thrown error through handleControllerError, the
\* staff handlers answer every one with 500
UpdateFail(r, error, cause) ==
  IF req[r].op = "updateOrder" THEN Fail(r, req[r].target, error, cause)
  ELSE Finish(r, req[r].target, Resp(500, cause))

\* findById, 404 when there is no such order; addInternalNotes puts the new
\* note after the notes it found when asked to append
FindExisting(r) ==
  /\ req[r].pc = "findExisting"
  /\ \E up \in BOOLEAN :
       IF ~up THEN UpdateFail(r, StoreError, "store")
       ELSE IF ~\E o \in orders : o.id = req[r].target
         THEN Finish(r, req[r].target, Resp(404, "order"))
       ELSE LET order == CHOOSE o \in orders : o.id = req[r].target
                sent == Val(req[r].body)
                updateData ==
                  IF req[r].op = "addInternalNotes" /\ sent.append
                     /\ order.internalNotes /= <<>>
                  THEN [internalNotes |-> order.internalNotes \o sent.updateData.internalNotes]
                  ELSE sent.updateData
            IN req' = [req EXCEPT ![r].pc = "findByIdAndUpdate",
                                  ![r].doc = Some(updateData)]
  /\ UNCHANGED <<orders, userOrders, clock, nextId, allocLog, calc, users, call>>

\* findByIdAndUpdate: updateOrder asks for the update validators; an order
\* deleted since the lookup is answered 200 with no order
FindByIdAndUpdate(r) ==
  /\ req[r].pc = "findByIdAndUpdate"
  /\ LET updateData == Val(req[r].doc)
         others == {o \in orders : o.id /= req[r].target}
     IN \E up \in BOOLEAN :
          IF ~up THEN UpdateFail(r, StoreError, "store") /\ UNCHANGED orders
          ELSE IF req[r].op = "updateOrder" /\ ~updateValid(updateData)
            THEN UpdateFail(r, SchemaError, "schema") /\ UNCHANGED orders
          ELSE IF others = orders
            THEN Finish(r, req[r].target, Resp(200, "updated")) /\ UNCHANGED orders
          ELSE LET order == CHOOSE o \in orders : o.id = req[r].target
                   updated == set(order, updateData)
               IN IF ~uniqueIndexAllows(others, updated)
                  THEN UpdateFail(r, DuplicateKeyError, "duplicate") /\ UNCHANGED orders
                  ELSE /\ orders' = others \cup {updated}
                       /\ Finish(r, req[r].target, Resp(200, "updated"))
  /\ UNCHANGED <<userOrders, clock, nextId, allocLog, calc, users, call>>

-----------------------------------------------------------------------------
(* models/user.model.ts and services/auth.service.ts: the user documents,   *)
(* the pre-save hook on the default address, registerUser and confirmEmail; *)
(* one call at a time.  Of a user the model keeps the email, the            *)
(* verification flag and token, and the isDefault flag of each address.     *)

EmailInputs == {"ana@x", "ANA@x", "luz@x"}

toLowerCase(email) == IF email = "ANA@x" THEN "ana@x" ELSE email

\* crypto.randomBytes(32).toString('hex'): no two users are given the same
\* token, so a token is named by the user it was made for
generateEmailVerificationToken(email) == <<"token", email>>

Tokens == {generateEmailVerificationToken(e) : e \in {"ana@x", "luz@x", "nobody"}}

\* this.address.filter(addr => addr.isDefault)
defaultAddresses(address) == {i \in DOMAIN address : address[i]}

\* userSchema.pre('save'): with more than one default, every address but
\* the first one of the list has its flag cleared
ensureOneDefault(address) ==
  IF Len(address) > 0 /\ Cardinality(defaultAddresses(address)) > 1
  THEN [i \in DOMAIN address |-> IF i > 1 /\ address[i] THEN FALSE ELSE address[i]]
  ELSE address

\* user.save(): the hook runs, the document replaces the stored one
saved(store, doc) ==
  {u \in store : u.email /= doc.email}
    \cup {[doc EXCEPT !.address = ensureOneDefault(doc.address)]}

\* auth.service.ts lines 81-91
newUser(email) ==
  [email |-> email,
   isEmailVerified |-> FALSE,
   emailVerificationToken |-> Some(generateEmailVerificationToken(email)),
   address |-> <<>>]

IdleCall ==
  [pc |-> "idle", op |-> "none", email |-> "", token |-> Absent, doc |-> Absent,
   before |-> {}, result |-> "none"]

\* the call returns, or throws an error named by result
Return == call' = [call EXCEPT !.pc = "done", !.result = "returned"]
Throw(error) == call' = [call EXCEPT !.pc = "done", !.result = error]

\* before: the users as they were when the call started (history)
RegisterUser ==
  /\ call.pc = "idle"
  /\ \E email \in EmailInputs :
       call' = [IdleCall EXCEPT !.pc = "findOne", !.op = "registerUser",
                                !.email = email, !.before = users]
  /\ UNCHANGED <<orders, userOrders, clock, nextId, req, allocLog, calc, users>>

\* lines 69-72
FindExistingUser ==
  /\ call.pc = "findOne" /\ call.op = "registerUser"
  /\ \E up \in BOOLEAN :
       IF ~up THEN Throw("store")
       ELSE IF \E u \in users : u.email = toLowerCase(call.email)
         THEN Throw("already_exists")
       ELSE call' = [call EXCEPT !.pc = "save",
                                 !.doc = Some(newUser(toLowerCase(call.email)))]
  /\ UNCHANGED <<orders, userOrders, clock, nextId, req, allocLog, calc, users>>

\* line 93
SaveNewUser ==
  /\ call.pc = "save" /\ call.op = "registerUser"
  /\ \E up \in BOOLEAN :
       IF ~up THEN Throw("store") /\ UNCHANGED users
       ELSE /\ users' = saved(users, Val(call.doc))
            /\ call' = [call EXCEPT !.pc = "sendVerificationEmail"]
  /\ UNCHANGED <<orders, userOrders, clock, nextId, req, allocLog, calc>>

\* lines 96-109: the mail service sends or fails
SendVerificationEmail ==
  /\ call.pc = "sendVerificationEmail"
  /\ \E sent \in BOOLEAN :
       IF sent THEN Return ELSE Throw("verification_email")
  /\ UNCHANGED <<orders, userOrders, clock, nextId, req, allocLog, calc, users>>

ConfirmEmail ==
  /\ call.pc = "idle"
  /\ \E token \in Tokens :
       call' = [IdleCall EXCEPT !.pc = "findOne", !.op = "confirmEmail",
                                !.token = Some(token), !.before = users]
  /\ UNCHANGED <<orders, userOrders, clock, nextId, req, allocLog, calc, users>>

\* lines 113-123
FindUnverifiedUser ==
  /\ call.pc = "findOne" /\ call.op = "confirmEmail"
  /\ \E up \in BOOLEAN :
       LET hits == {u \in users : /\ u.emailVerificationToken = call.token
                                  /\ ~u.isEmailVerified}
       IN IF ~up THEN Throw("store")
          ELSE IF hits = {} THEN Throw("invalid_token")
          ELSE call' = [call EXCEPT
                          !.pc = "save",
                          !.doc = Some([(CHOOSE u \in hits : TRUE) EXCEPT
                                          !.isEmailVerified = TRUE,
                                          !.emailVerificationToken = Absent])]
  /\ UNCHANGED <<orders, userOrders, clock, nextId, req, allocLog, calc, users>>

\* line 124
SaveVerifiedUser ==
  /\ call.pc = "save" /\ call.op = "confirmEmail"
  /\ \E up \in BOOLEAN :
       IF ~up THEN Throw("store") /\ UNCHANGED users
       ELSE /\ users' = saved(users, Val(call.doc))
            /\ call' = [call EXCEPT !.pc = "sendWelcomeEmail"]
  /\ UNCHANGED <<orders, userOrders, clock, nextId, req, allocLog, calc>>

\* lines 127-139
SendWelcomeEmail ==
  /\ call.pc = "sendWelcomeEmail"
  /\ \E sent \in BOOLEAN :
       IF sent THEN Return ELSE Throw("welcome_email")
  /\ UNCHANGED <<orders, userOrders, clock, nextId, req, allocLog, calc, users>>

\* the caller has the result: the next call may start
EndCall ==
  /\ call.pc = "done"
  /\ call' = IdleCall
  /\ UNCHANGED <<orders, userOrders, clock, nextId, req, allocLog, calc, users>>

\* save() of a user document with addresses
SaveDocument ==
  /\ call.pc = "save" /\ call.op = "save"
  /\ \E up \in BOOLEAN :
       IF ~up THEN Throw("store") /\ UNCHANGED users
       ELSE users' = saved(users, Val(call.doc)) /\ Return
  /\ UNCHANGED <<orders, userOrders, clock, nextId, req, allocLog, calc>>

-----------------------------------------------------------------------------
(* The clock *)

Epoch == [year |-> 2025, month |-> 12]

MonthsSince(start, now) == (now.year - start.year) * 12 + now.month - start.month

\* the month ends
Tick ==
  /\ MonthsSince(Epoch, clock) < MaxTicks
  /\ clock' = IF clock.month = 12 THEN [year |-> clock.year + 1, month |-> 1]
              ELSE [clock EXCEPT !.month = @ + 1]
  /\ UNCHANGED <<orders, userOrders, nextId, req, allocLog, calc, users, call>>

-----------------------------------------------------------------------------
(* The allocation runs: concurrent creations and deletions, an empty store *)

Init ==
  /\ orders = {}
  /\ userOrders = [c \in Customers |-> <<>>]
  /\ clock = Epoch
  /\ nextId = 1
  /\ req = [r \in Requests |-> IdleSlot]
  /\ allocLog = <<>>
  /\ calc = NoCall
  /\ users = {}
  /\ call = IdleCall

Next ==
  \/ \E r \in Requests :
       \/ CreateOrder(r, AllocBodies)
       \/ FindCustomer(r)
       \/ PreSave(r)
       \/ Insert(r)
       \/ PushOrder(r)
       \/ DeleteOrder(r)
       \/ FindOrder(r)
       \/ PullOrder(r)
       \/ RemoveOrder(r)
  \/ Tick

Spec == Init /\ [][Next]_vars

-----------------------------------------------------------------------------
(* The sequential runs: one request at a time, any number of them *)

NextSeq ==
  \/ CreateOrder(1, AllocBodies)
  \/ FindCustomer(1)
  \/ PreSave(1)
  \/ Insert(1)
  \/ PushOrder(1)
  \/ DeleteOrder(1)
  \/ FindOrder(1)
  \/ PullOrder(1)
  \/ RemoveOrder(1)
  \/ Recycle(1)
  \/ Tick

SpecSeq == Init /\ [][NextSeq]_vars

-----------------------------------------------------------------------------
(* The late-month runs: as the sequential runs, from a store whose month    *)
(* already holds order 999 (what is left of 999 creations once the others   *)
(* were deleted); the log starts with that order's number                   *)

LateOrder ==
  [newOrder(BaseBody, 1) EXCEPT
     !.orderNumber = Some(OrderNumber(Epoch.year, <<1, 2>>, <<9, 9, 9>>))]

InitLate ==
  /\ orders = {LateOrder}
  /\ userOrders = [c \in Customers |-> <<1>>]
  /\ clock = Epoch
  /\ nextId = 2
  /\ req = [r \in Requests |-> IdleSlot]
  /\ allocLog = <<[id |-> 1, number |-> Val(LateOrder.orderNumber)]>>
  /\ calc = NoCall
  /\ users = {}
  /\ call = IdleCall

SpecLate == InitLate /\ [][NextSeq]_vars

-----------------------------------------------------------------------------
(* The update runs: one request at a time to the four handlers that write   *)
(* to a stored order, from a store that holds one order                     *)

NextUpdate ==
  \/ UpdateOrder(1)
  \/ UpdateOrderStatus(1)
  \/ UpdatePaymentStatus(1)
  \/ AddInternalNotes(1)
  \/ FindExisting(1)
  \/ FindByIdAndUpdate(1)
  \/ Recycle(1)

SpecUpdate == InitLate /\ [][NextUpdate]_vars

-----------------------------------------------------------------------------
(* The pricing runs: one creation, its monetary fields drawn from the sets  *)
(* below                                                                    *)

ItemLists ==
  { <<Item(2, 12500, 25000)>>,                    \* 2 x 12.50 = 25.00
    <<Item(1, 25000, 25000)>>,                    \* 1 x 25.00 = 25.00
    <<Item(1, 1004, 1004), Item(3, 333, 999)>>,   \* a third decimal
    <<Item(2, 1250000, 2500000)>>,                \* 2 x 1250 = 2500, in cents
    <<Item(2, 12500, 26000)>>,                    \* the line is off by 1.00
    <<Item(1, 10000, 10010)>>,                    \* the line is off by 0.01
    <<Item(1, 10000, 10014)>>,                    \* the line is off by 0.014
    <<>> }

SubtotalInputs == {Absent, Some(25000), Some(200), Some(2500000)}

TaxRateInputs == {Absent, Some(120), Some(123), Some(1000), Some(1500), Some(-100)}

DiscountInputs ==
  {Absent, Some(500), Some(1004), Some(50000), Some(500000), Some(-1000)}

TotalInputs == {Absent, Some(31000), Some(99000)}

ShippingCostInputs == {Absent, Some(99000)}

ZoneInputs == DeliveryZones \cup {"", "Z9"}

PricingBodies ==
  { [BaseBody EXCEPT !.items = items, !.subtotal = subtotal, !.taxRate = taxRate,
                     !.discount = discount, !.total = total,
                     !.shippingCost = shippingCost, !.deliveryZone = zone] :
      items \in ItemLists, subtotal \in SubtotalInputs, taxRate \in TaxRateInputs,
      discount \in DiscountInputs, total \in TotalInputs,
      shippingCost \in ShippingCostInputs, zone \in ZoneInputs }

NextPricing ==
  \/ CreateOrder(1, PricingBodies)
  \/ FindCustomer(1)
  \/ PreSave(1)
  \/ Insert(1)
  \/ PushOrder(1)

SpecPricing == Init /\ [][NextPricing]_vars

-----------------------------------------------------------------------------
(* The account runs: registerUser and confirmEmail, one call at a time      *)

NextAuth ==
  \/ RegisterUser
  \/ FindExistingUser
  \/ SaveNewUser
  \/ SendVerificationEmail
  \/ ConfirmEmail
  \/ FindUnverifiedUser
  \/ SaveVerifiedUser
  \/ SendWelcomeEmail
  \/ EndCall

SpecAuth == Init /\ [][NextAuth]_vars

-----------------------------------------------------------------------------
(* The address runs: one save of a user document, its addresses' isDefault  *)
(* flags drawn from the lists of up to MaxAddresses flags                   *)

AddressLists == UNION {[1..n -> BOOLEAN] : n \in 0..MaxAddresses}

InitAddress ==
  /\ orders = {}
  /\ userOrders = [c \in Customers |-> <<>>]
  /\ clock = Epoch
  /\ nextId = 1
  /\ req = [r \in Requests |-> IdleSlot]
  /\ allocLog = <<>>
  /\ calc = NoCall
  /\ users = {}
  /\ call \in {[IdleCall EXCEPT !.pc = "save", !.op = "save",
                   !.doc = Some([newUser("ana@x") EXCEPT !.address = address])] :
                 address \in AddressLists}

NextAddress == SaveDocument

SpecAddress == InitAddress /\ [][NextAddress]_vars

-----------------------------------------------------------------------------
(* The naming runs: one creation of one line, its product name, its total   *)
(* and the zone drawn from the sets below                                   *)

ProductNames ==
  { {}, {"Invalid"}, {"invalid"}, {"duplicate"}, {"not found"}, {"email"},
    {"Invalid", "email"} }

NameBodies ==
  { [BaseBody EXCEPT !.items = <<NamedItem(productName, 2, 12500, totalPrice)>>,
                     !.deliveryZone = zone] :
      productName \in ProductNames, totalPrice \in {25000, 26000},
      zone \in DeliveryZones }

NextNames ==
  \/ CreateOrder(1, NameBodies)
  \/ FindCustomer(1)
  \/ PreSave(1)
  \/ Insert(1)
  \/ PushOrder(1)

SpecNames == Init /\ [][NextNames]_vars

-----------------------------------------------------------------------------
(* The payment runs: one creation, its payment status and reference drawn   *)
(* from the sets below                                                      *)

PaymentStatusInputs == {Absent, Some(""), Some("paid"), Some("failed"), Some("lost")}

PaymentReferenceInputs ==
  {Absent, Some(<<>>), Some(<<" ">>), Some(<<"r">>), Some(<<" ", "r", " ">>)}

PaymentBodies ==
  { [BaseBody EXCEPT !.paymentStatus = paymentStatus,
                     !.paymentReference = paymentReference] :
      paymentStatus \in PaymentStatusInputs,
      paymentReference \in PaymentReferenceInputs }

NextPayment ==
  \/ CreateOrder(1, PaymentBodies)
  \/ FindCustomer(1)
  \/ PreSave(1)
  \/ Insert(1)
  \/ PushOrder(1)

SpecPayment == Init /\ [][NextPayment]_vars

-----------------------------------------------------------------------------
(* The normaliser runs: one value and one reference, normalised, and the    *)
(* result normalised again with the same reference                          *)

\* amounts in mills: 0, 1.004, 5.00, 12.50, 100, 100.50, 101, 123.45, 999,
\* 1000, 1250 and 15000
CalcValues ==
  {0, 1004, 5000, 12500, 100000, 100500, 101000, 123450, 999000, 1000000,
   1250000, 15000000}

\* no reference, 0, 0.20 and 25.00
CalcRefs == {Absent, Some(0), Some(200), Some(25000)}

InitCurrency ==
  /\ orders = {}
  /\ userOrders = [c \in Customers |-> <<>>]
  /\ clock = Epoch
  /\ nextId = 1
  /\ req = [r \in Requests |-> IdleSlot]
  /\ allocLog = <<>>
  /\ calc \in {[NoCall EXCEPT !.pc = "input", !.value = v, !.ref = r] :
                 v \in CalcValues, r \in CalcRefs}
  /\ users = {}
  /\ call = IdleCall

Normalize ==
  /\ calc.pc = "input"
  /\ calc' = [calc EXCEPT !.pc = "once",
                          !.once = Some(smartCurrencyConvert(calc.value, calc.ref))]
  /\ UNCHANGED <<orders, userOrders, clock, nextId, req, allocLog, users, call>>

NormalizeAgain ==
  /\ calc.pc = "once"
  /\ calc' = [calc EXCEPT !.pc = "twice",
                          !.twice = Some(smartCurrencyConvert(Val(calc.once), calc.ref))]
  /\ UNCHANGED <<orders, userOrders, clock, nextId, req, allocLog, users, call>>

NextCurrency == Normalize \/ NormalizeAgain

SpecCurrency == InitCurrency /\ [][NextCurrency]_vars

-----------------------------------------------------------------------------
(* What the properties below speak of *)

IsCreate(r) == req[r].op = "create" /\ IsDefined(req[r].body)

DoneCreate(r) == IsCreate(r) /\ req[r].pc = "done"

\* the id of the document request r made: in its locals while it runs, kept
\* by the slot once it has answered
OrderIdOf(r) == IF IsDefined(req[r].doc) THEN Val(req[r].doc).id ELSE req[r].target

PersistedBy(r) == {o \in orders : o.id = OrderIdOf(r)}

NoDeleteSoFar == \A r \in Requests : req[r].op /= "delete"

SeqOf(number) == parseInt(number.seq)

SameMonth(m, n) == m.year = n.year /\ m.month = n.month

-----------------------------------------------------------------------------
(* Order numbers *)

\* C1: under every interleaving of the concurrent createOrder requests no
\* two persisted orders carry the same orderNumber, and a request that has
\* ended has either answered 201 with its order persisted under a number no
\* other order holds, or answered with a failure status.
C1_UniqueOrderNumbers ==
  /\ \A o, p \in orders : o.orderNumber = p.orderNumber => o.id = p.id
  /\ NoDeleteSoFar =>
       \A r \in Requests : DoneCreate(r) =>
         \/ /\ req[r].resp.status = 201
            /\ \E o \in PersistedBy(r) :
                 /\ IsDefined(o.orderNumber)
                 /\ \A p \in orders : p.orderNumber = o.orderNumber => p = o
         \/ req[r].resp.status \in {400, 401, 404, 409, 500, 503}

\* two requests proposed the same number: one is persisted, the other was
\* refused by the index and answered 409
C1_Witness ==
  \E r, q \in Requests :
    /\ DoneCreate(r) /\ req[r].resp.status = 201 /\ PersistedBy(r) /= {}
    /\ DoneCreate(q) /\ req[q].resp.cause = "duplicate"

ValidInput(body) == \A fuzz \in BOOLEAN : createOutcome(body, fuzz).persisted

\* C2: two createOrder requests with valid input, in one year-month that
\* holds no other order, without a store failure: both orders are persisted,
\* one with sequence 001 and the other with 002.
C2_BothPersisted ==
  \A r, q \in Requests :
    ( /\ r /= q
      /\ DoneCreate(r) /\ DoneCreate(q)
      /\ ValidInput(Val(req[r].body)) /\ ValidInput(Val(req[q].body))
      /\ req[r].resp.cause /= "store" /\ req[q].resp.cause /= "store"
      /\ clock = Epoch
      /\ NoDeleteSoFar
      /\ \A i \in DOMAIN allocLog : allocLog[i].id \in {OrderIdOf(r), OrderIdOf(q)} )
    => /\ req[r].resp.status = 201 /\ req[q].resp.status = 201
       /\ \E o \in PersistedBy(r), p \in PersistedBy(q) :
            {Val(o.orderNumber).seq, Val(p.orderNumber).seq} = {<<0, 0, 1>>, <<0, 0, 2>>}

\* C3: within one year-month the first number allocated has sequence 1 and
\* every later one a sequence greater than all allocated before it; the
\* first allocation of a new year-month has sequence 1 again.
C3_SequenceIncreases ==
  \A j \in DOMAIN allocLog :
    /\ (\A i \in 1..(j - 1) : ~SameMonth(allocLog[i].number, allocLog[j].number))
         => SeqOf(allocLog[j].number) = 1
    /\ \A i \in 1..(j - 1) :
         SameMonth(allocLog[i].number, allocLog[j].number)
           => SeqOf(allocLog[i].number) < SeqOf(allocLog[j].number)

\* C4: every orderNumber has the form ORDER-YYYY-MM-NNN: a year of four
\* digits, a month of two and a sequence of exactly three, however many
\* orders the year-month holds.
C4_ThreeDigitSequence ==
  \A o \in orders : IsDefined(o.orderNumber) =>
    /\ Len(String(Val(o.orderNumber).year)) = 4
    /\ Len(Val(o.orderNumber).month) = 2
    /\ Len(Val(o.orderNumber).seq) = 3

-----------------------------------------------------------------------------
(* Monetary fields *)

\* C5: every persisted order's subtotal is the 2-decimal rounding of the
\* sum of its stored lines' totalPrice.
C5_SubtotalIsRoundedSum ==
  \A o \in orders : o.subtotal = toFixed2(SumTotalPrice(o.items))

\* an order is persisted whose line totals sum to a third decimal
C5_Witness ==
  \E o \in orders : SumTotalPrice(o.items) % 10 /= 0

\* C6: two createOrder requests that differ only in the subtotal the client
\* sent have the same outcome: both rejected, or both persisted with the
\* same line prices, subtotal, tax and total.
C6_SubtotalIrrelevant ==
  \A r \in Requests : IsCreate(r) =>
    \A subtotal \in SubtotalInputs, fuzz \in BOOLEAN :
      createOutcome([Val(req[r].body) EXCEPT !.subtotal = subtotal], fuzz)
        = createOutcome(Val(req[r].body), fuzz)

RateOutOfRange(body) ==
  IsDefined(body.taxRate) /\ (Val(body.taxRate) < 0 \/ Val(body.taxRate) > 1000)

\* C7: every persisted order has taxRate in [0,1] and tax equal to the
\* 2-decimal rounding of subtotal x taxRate; a request whose taxRate is
\* outside [0,1] is never persisted.
C7_TaxIsRoundedProduct ==
  /\ \A o \in orders :
       /\ o.taxRate >= 0 /\ o.taxRate <= 1000
       /\ o.tax = 10 * RoundDiv(o.subtotal * o.taxRate, 10000)
  /\ \A r \in Requests :
       IsCreate(r) /\ RateOutOfRange(Val(req[r].body))
         => PersistedBy(r) = {} /\ req[r].resp.status /= 201

\* an order is persisted whose subtotal x taxRate is no whole number of cents
C7_Witness ==
  \E o \in orders : (o.subtotal * o.taxRate) % 10000 /= 0

Scenario(o) ==
  /\ o.items = <<Item(2, 12500, 25000)>>
  /\ o.taxRate = 120
  /\ o.shippingCost = 3000
  /\ o.discount = 0

\* C8: every persisted order's total is the 2-decimal rounding of subtotal
\* + tax + shippingCost - discount; one line of 2 x 12.50 = 25.00 at rate
\* 0.12, shipping 3.00 and no discount is stored with subtotal 25.00, tax
\* 3.00 and total 31.00.
C8_TotalIsRoundedSum ==
  \A o \in orders :
    /\ o.total = toFixed2(o.subtotal + o.tax + o.shippingCost - o.discount)
    /\ Scenario(o) => o.subtotal = 25000 /\ o.tax = 3000 /\ o.total = 31000

\* the scenario's order is persisted, and its request has answered
C8_Witness ==
  \E r \in Requests : DoneCreate(r) /\ \E o \in PersistedBy(r) : Scenario(o)

\* C9: the shippingCost stored is the zone table's value for the request's
\* deliveryZone, whatever shippingCost the client sent.
C9_ShippingFromZoneTable ==
  /\ \A o \in orders : o.shippingCost = ZonePriceTable[o.deliveryZone]
  /\ \A r \in Requests : IsCreate(r) =>
       \A o \in PersistedBy(r) :
         /\ o.deliveryZone = Val(req[r].body).deliveryZone
         /\ o.shippingCost = ZonePriceTable[Val(req[r].body).deliveryZone]

\* an order is persisted for a request that sent a shippingCost of 99.00
C9_Witness ==
  \E r \in Requests :
    /\ DoneCreate(r)
    /\ Val(req[r].body).shippingCost = Some(99000)
    /\ Val(req[r].body).deliveryZone = "via_costa"
    /\ \E o \in PersistedBy(r) : o.shippingCost = 5000

TotalDisagrees(body) ==
  /\ requestCheck(body) = NoResp
  /\ IsDefined(body.total)
  /\ Abs(Val(convertOrderMonetaryValues(body).total) - orderTotal(body)) > 10

\* C10: a request whose submitted total differs from the recomputed total
\* by more than 0.01 is rejected and nothing is persisted for it.
C10_TotalMismatchRejected ==
  \A r \in Requests :
    IsCreate(r) /\ TotalDisagrees(Val(req[r].body))
      => PersistedBy(r) = {} /\ req[r].resp.status /= 201

-----------------------------------------------------------------------------
(* Input validation *)

\* C11: a createOrder request whose deliveryZone is missing or is none of
\* the five zones is answered 400 before any store access: no order is
\* stored, no document is built, no id is taken and no order number is
\* computed.
C11_UnknownZoneRejected ==
  \A r \in Requests :
    IsCreate(r) /\ Val(req[r].body).deliveryZone \notin DeliveryZones
      => /\ req[r].pc = "done"
         /\ req[r].resp.status = 400
         /\ req[r].doc = Absent
         /\ orders = {}
         /\ allocLog = <<>>
         /\ nextId = 1

\* a request with zone "Z9" and nothing else wrong has been answered
C11_Witness ==
  \E r \in Requests :
    /\ DoneCreate(r)
    /\ Val(req[r].body).deliveryZone = "Z9"
    /\ req[r].resp = Resp(400, "zone")

LineWithinTolerance(item) ==
  Abs(item.totalPrice - toFixed2(item.quantity * item.unitPrice)) <= 10

\* C12: every line of a persisted order has a totalPrice within 0.01 of the
\* 2-decimal rounding of quantity x unitPrice, and a request with a line
\* outside that tolerance, after currency normalisation, is rejected with
\* nothing persisted.
C12_LinesWithinTolerance ==
  /\ \A o \in orders : \A i \in DOMAIN o.items : LineWithinTolerance(o.items[i])
  /\ \A r \in Requests :
       ( /\ IsCreate(r)
         /\ \E i \in DOMAIN Val(req[r].body).items :
              ~LineWithinTolerance(convertOrderMonetaryValues(Val(req[r].body)).items[i]) )
       => PersistedBy(r) = {} /\ req[r].resp.status /= 201

-----------------------------------------------------------------------------
(* The currency normaliser *)

\* C13, as claimed: the normaliser returns v/100 when a reference r is
\* given and v > 50 x r, or v is an integer above 100, and returns v
\* unchanged otherwise.
C13_DividesExactlyWhen ==
  IsDefined(calc.once) =>
    IF \/ IsDefined(calc.ref) /\ calc.value > 50 * Val(calc.ref)
       \/ isInteger(calc.value) /\ calc.value > 100000
    THEN 100 * Val(calc.once) = calc.value
    ELSE Val(calc.once) = calc.value

\* C13, amended: the normaliser returns v/100 rounded to whole cents when a
\* reference r other than 0 is given and v > 50 x r, or v is an integer
\* above 100, and returns v unchanged otherwise.
C13_DividesWhenReferenceNonZero ==
  IsDefined(calc.once) =>
    IF \/ IsDefined(calc.ref) /\ Val(calc.ref) /= 0 /\ calc.value > 50 * Val(calc.ref)
       \/ isInteger(calc.value) /\ calc.value > 100000
    THEN Val(calc.once) % 10 = 0 /\ Abs(100 * Val(calc.once) - calc.value) <= 500
    ELSE Val(calc.once) = calc.value

\* 5.00 was normalised with a reference of 0 and came back unchanged, and
\* 123.45 with a reference of 0.20 came back as 1.23
C13_Witness ==
  \/ calc.value = 5000 /\ calc.ref = Some(0) /\ calc.once = Some(5000)
  \/ calc.value = 123450 /\ calc.ref = Some(200) /\ calc.once = Some(1230)

\* C14: normalising the result again with the same reference gives the
\* result of normalising once.
C14_Idempotent ==
  IsDefined(calc.twice) => calc.twice = calc.once

\* C15: every value the normaliser returns is a whole number of cents.
C15_TwoDecimals ==
  IsDefined(calc.once) => Val(calc.once) % 10 = 0

\* the monetary fields a request carries, each with what
\* convertOrderMonetaryValues makes of it
Conversions(body) ==
  LET converted == convertOrderMonetaryValues(body)
      field(f) == IF IsDefined(body[f])
                  THEN {<<Val(body[f]), Val(converted[f])>>} ELSE {}
  IN UNION {field(f) : f \in {"subtotal", "tax", "discount", "total", "shippingCost"}}
     \cup {<<body.items[i].unitPrice, converted.items[i].unitPrice>> :
             i \in DOMAIN body.items}
     \cup {<<body.items[i].totalPrice, converted.items[i].totalPrice>> :
             i \in DOMAIN body.items}

\* the request's amounts fit together as amounts of one unit: each line is
\* quantity x unitPrice, the subtotal is the sum of the lines, the discount
\* is between 0 and the subtotal, and where the subtotal is a whole number
\* (as every amount in cents is) so is the discount
OneUnit(body) ==
  /\ body.items /= <<>>
  /\ \A i \in DOMAIN body.items :
       body.items[i].totalPrice = body.items[i].quantity * body.items[i].unitPrice
  /\ body.subtotal = Some(SumTotalPrice(body.items))
  /\ IsDefined(body.discount)
  /\ Val(body.discount) >= 0 /\ Val(body.discount) <= Val(body.subtotal)
  /\ Val(body.discount) % 10 = 0
  /\ isInteger(Val(body.subtotal)) => isInteger(Val(body.discount))
  /\ body.total = Absent /\ body.shippingCost = Absent /\ body.tax = Absent

\* C16: when a request's amounts are all submitted in one unit,
\* convertOrderMonetaryValues divides every one of them by 100 or none.
C16_ConvertedConsistently ==
  \A r \in Requests :
    IsCreate(r) /\ OneUnit(Val(req[r].body))
      => \/ \A c \in Conversions(Val(req[r].body)) : 100 * c[2] = c[1]
         \/ \A c \in Conversions(Val(req[r].body)) : c[2] = c[1]

\* the discount a request submits, 0 when it submits none
SubmittedDiscount(body) == IF IsDefined(body.discount) THEN Val(body.discount) ELSE 0

\* C17: two createOrder requests that differ only in the discount they
\* submit, d1 and d2, and are both persisted, have stored totals that
\* differ by d1 - d2 to within 0.01.
C17_DiscountDelta ==
  \A r \in Requests : IsCreate(r) =>
    \A discount \in DiscountInputs, fuzz \in BOOLEAN :
      LET body1 == Val(req[r].body)
          body2 == [body1 EXCEPT !.discount = discount]
          out1 == createOutcome(body1, fuzz)
          out2 == createOutcome(body2, fuzz)
      IN out1.persisted /\ out2.persisted
           => Abs((out2.total - out1.total)
                  - (SubmittedDiscount(body1) - SubmittedDiscount(body2))) <= 10

-----------------------------------------------------------------------------
(* A stored order *)

FrozenFields ==
  {"items", "subtotal", "tax", "taxRate", "discount", "shippingCost", "total",
   "orderNumber"}

\* C18: whatever updateOrder, updateOrderStatus, updatePaymentStatus and
\* addInternalNotes do to a persisted order, its line items, subtotal, tax,
\* taxRate, discount, shippingCost, total and orderNumber stay as they were
\* stored.
C18_MonetaryFieldsFrozen ==
  \A o \in orders : o.id = LateOrder.id =>
    \A f \in FrozenFields : o[f] = LateOrder[f]

-----------------------------------------------------------------------------
(* Failures *)

\* what the caller can tell an answer by
Outcome(resp) == <<resp.status, resp.message>>

MismatchCauses == {"total_mismatch", "item_mismatch", "subtotal_mismatch"}

\* C19: a createOrder request that fails while the pre-save hook reads the
\* month's highest number from an unavailable store, or whose insert
\* collides on orderNumber, is answered with an outcome that no input
\* validation failure and no monetary mismatch is answered with.
C19_AllocationFailureDistinct ==
  [][\A r \in Requests :
       ( /\ IsCreate(r)
         /\ req'[r].pc = "done"
         /\ \/ req[r].pc = "preSave" /\ req'[r].resp.cause = "store"
            \/ req[r].pc = "insert" /\ req'[r].resp.cause = "duplicate" )
       => Outcome(req'[r].resp) \notin
            { Outcome(Resp(400, "zone")),
              Outcome(ErrorResp(SchemaError, "schema")),
              Outcome(ErrorResp(MismatchError, "item_mismatch")) }]_vars

\* C20: the answer to a createOrder request rejected for a line total, a
\* subtotal or a total that disagrees with the recomputed value carries the
\* error's message, which holds the provided and the computed value.
C20_MismatchReportsBothValues ==
  \A r \in Requests :
    DoneCreate(r) /\ req[r].resp.cause \in MismatchCauses
      => req[r].resp.message = "error"

\* a line of the request is outside the tolerance once normalised
HasLineMismatch(body) ==
  \E i \in DOMAIN body.items :
    ~LineWithinTolerance(convertOrderMonetaryValues(body).items[i])

\* C21: of several violations the first in pipeline order is reported: a
\* request with a line mismatch and an unknown delivery zone is answered
\* with the mismatch, and a line mismatch is reported before a subtotal or
\* total mismatch.
C21_MismatchReportedFirst ==
  \A r \in Requests :
    ( /\ DoneCreate(r)
      /\ HasLineMismatch(Val(req[r].body))
      /\ Val(req[r].body).deliveryZone \notin DeliveryZones )
    => req[r].resp.cause = "item_mismatch"

\* C22: a createOrder request answered with a failure has left the orders
\* and every customer's orders list as they were, and one answered with
\* success has left exactly one new order.
C22_FailureLeavesNothing ==
  \A r \in Requests : DoneCreate(r) =>
    IF req[r].resp.status = 201
    THEN Cardinality(orders) = 1 /\ PersistedBy(r) = orders
    ELSE orders = {} /\ \A c \in DOMAIN userOrders : userOrders[c] = <<>>

StaffOps == {"updateOrderStatus", "updatePaymentStatus", "addInternalNotes"}

PricedFields == FrozenFields \cup {"deliveryZone"}

\* C23: no step of an updateOrderStatus, updatePaymentStatus or
\* addInternalNotes request changes an order's line items, subtotal, tax,
\* taxRate, discount, shippingCost, total, deliveryZone or orderNumber, and
\* a request of theirs that is answered with an error has changed nothing
\* of any order.
C23_StaffUpdatesKeepPricing ==
  [][\A r \in Requests :
       (req'[r].op \in StaffOps /\ req'[r] /= req[r]) =>
         /\ \A o \in orders : \E n \in orders' :
              n.id = o.id /\ \A f \in PricedFields : n[f] = o[f]
         /\ orders' /= orders =>
              req'[r].pc = "done" /\ req'[r].resp.status = 200]_vars

C23_Witness ==
  \E r \in Requests, o \in orders :
    /\ req[r].op \in StaffOps /\ req[r].pc = "done" /\ req[r].resp.status = 200
    /\ o.id = req[r].target /\ o.id = LateOrder.id
    /\ \A f \in PricedFields : o[f] = LateOrder[f]
    /\ o.status = "cancelled" /\ o.internalNotes = <<"note">>

-----------------------------------------------------------------------------
(* Payment status *)

\* a payment status was sent: the field is there and is not empty
GivenPaymentStatus(body) == IsDefined(body.paymentStatus) /\ Val(body.paymentStatus) /= ""

\* a reference was sent and has a character that is not a blank
HasReference(body) ==
  /\ IsDefined(body.paymentReference)
  /\ \E i \in DOMAIN Val(body.paymentReference) : Val(body.paymentReference)[i] /= " "

\* C24: the order createOrder stores has the payment status the client
\* sent when it sent one; otherwise it is "paid" when a payment reference
\* was sent that is not blank once trimmed, and "pending" in every other
\* case.
C24_StoredPaymentStatus ==
  \A r \in Requests : IsCreate(r) =>
    \A o \in PersistedBy(r) :
      o.paymentStatus =
        IF GivenPaymentStatus(Val(req[r].body)) THEN Val(Val(req[r].body).paymentStatus)
        ELSE IF HasReference(Val(req[r].body)) THEN "paid"
        ELSE "pending"

C24_Witness ==
  \E r \in Requests : \E o \in PersistedBy(r) :
    /\ DoneCreate(r)
    /\ ~GivenPaymentStatus(Val(req[r].body))
    /\ Val(req[r].body).paymentReference = Some(<<" ", "r", " ">>)
    /\ o.paymentStatus = "paid"

-----------------------------------------------------------------------------
(* The class of a mismatch *)

\* C26: a createOrder request that the pre-save hooks refuse for a
\* monetary mismatch is answered with the same status whatever the product
\* name quoted in the error's message: the one handleControllerError gives
\* the mismatch error itself.
C26_MismatchClassIgnoresName ==
  \A r \in Requests :
    (DoneCreate(r) /\ req[r].resp.cause \in MismatchCauses) =>
      req[r].resp.status = handleControllerError(MismatchError)

-----------------------------------------------------------------------------
(* Order numbers over creations and deletions *)

\* C27: a number that was given to a persisted order is never given to
\* another order afterwards, whatever createOrder and deleteOrder requests
\* came between the two.
C27_NumberNeverReassigned ==
  \A i, j \in DOMAIN allocLog :
    allocLog[i].number = allocLog[j].number => allocLog[i].id = allocLog[j].id

\* the numerically highest sequence among the stored orders of the month of
\* now, 0 when it holds none
HighestSeq(store, now) ==
  LET seqs == {SeqOf(Val(o.orderNumber)) :
                 o \in {p \in store :
                          /\ IsDefined(p.orderNumber)
                          /\ matchesPrefix(Val(p.orderNumber), now.year,
                                           padStart(String(now.month), 2))}}
  IN IF seqs = {} THEN 0 ELSE CHOOSE n \in seqs : \A k \in seqs : k <= n

\* C28: the sequence the pre-save hook proposes for a new order is 1 plus
\* the numerically highest sequence among the stored orders of the current
\* year-month, and no createOrder request of a run of one request at a
\* time is answered with a collision on orderNumber.
C28_ProposesNextHighest ==
  [][\A r \in Requests :
       /\ (req[r].pc = "preSave" /\ req'[r].pc = "insert") =>
            SeqOf(Val(Val(req'[r].doc).orderNumber)) = 1 + HighestSeq(orders, clock)
       /\ (req'[r].op = "create" /\ req'[r].pc = "done") =>
            req'[r].resp.cause /= "duplicate"]_vars

\* C29: when no request is in progress, an order id is in its customer's
\* orders list exactly when that order is persisted.
C29_ListMatchesStore ==
  (\A r \in Requests : req[r].pc \in {"idle", "done"}) =>
    \A c \in DOMAIN userOrders :
      {userOrders[c][i] : i \in DOMAIN userOrders[c]}
        = {o.id : o \in {p \in orders : p.customer = c}}

-----------------------------------------------------------------------------
(* Users *)

\* C25: after a user document is saved at most one of its addresses is the
\* default, and when an address was flagged default before the save, the
\* first one flagged is the default after it.
C25_FirstDefaultKept ==
  (call.op = "save" /\ call.pc = "done" /\ call.result = "returned") =>
    \A u \in users : u.email = Val(call.doc).email =>
      LET sent == Val(call.doc).address
          flagged == defaultAddresses(sent)
      IN /\ Cardinality(defaultAddresses(u.address)) <= 1
         /\ flagged /= {} =>
              \E i \in flagged : u.address[i] /\ \A j \in flagged : i <= j

\* C30: a registerUser or confirmEmail call that reports a failure has
\* left the users as they were when it started: no user was added, and no
\* user's isEmailVerified flag or verification token was changed.
C30_FailureLeavesUsers ==
  (call.pc = "done" /\ call.result /= "returned") => users = call.before

====
